---- MODULE Spec2Model ----
(***************************************************************************)
(* A model of lightweight_charts/abstract.py: the Window script queue, the *)
(* series objects (SeriesCommon, Bar, Candlestick) with their stored rows, *)
(* last bar and markers, and the chart's list of series.                   *)
(*                                                                         *)
(* A script is a record [n, op, id, data]: op names the JavaScript call    *)
(* the f-string formats, id is the Python object whose id the string       *)
(* names, data the payload (rows, one bar, the marker values).  n is the   *)
(* position of the run_script call in the run; it tells two calls with the *)
(* same text apart.  script_func receives a string; calls records each     *)
(* string as the sequence of scripts joined into it.                       *)
(*                                                                         *)
(* Times are POSIX seconds; a time argument is taken to be a datetime, so  *)
(* that _single_datetime_format is the interval alignment it computes.     *)
(* util.py (IDGen, BulkRunScript, Pane, Events, marker_position) is not    *)
(* part of the sources at hand; what the model needs of it is modelled     *)
(* from its use in abstract.py.                                            *)
(***************************************************************************)
EXTENDS Integers, Sequences, FiniteSets, TLC

\* ---------------------------------------------------------------- bounds
MaxCalls == 5           \* calls made on a bare window in one run
MaxProbes == 2          \* readyState probes before the page answers "complete"

VARIABLES
    script_func,        \* Window.script_func: "set" or "None"
    loaded,             \* Window.loaded
    scripts,            \* Window.scripts
    final_scripts,      \* Window.final_scripts
    bulk_enabled,       \* Window.bulk_run.enabled
    bulk_scripts,       \* Window.bulk_run.scripts
    has_return_q,       \* hasattr(window, '_return_q')
    hung,               \* the caller is blocked in _return_q.get()
    bulk_used,          \* history: bulk mode was enabled at some point
    pc,                 \* where a running on_js_load is: "idle" when none is
    calls,              \* what script_func received, one entry per call
    submitted,          \* history: the run_script calls that were accepted
    id_count,           \* Window._id_gen: how many ids were generated
    kind,               \* the panes constructed so far: id -> class
    name,               \* SeriesCommon.name
    _interval,          \* SeriesCommon._interval
    offset,             \* SeriesCommon.offset
    _last_bar,          \* SeriesCommon._last_bar (NoBar: None)
    data,               \* SeriesCommon.data: the rows of the DataFrame
    candle_data,        \* Candlestick.candle_data: the rows of the DataFrame
    markers,            \* SeriesCommon.markers, in insertion order
    _lines,             \* AbstractChart._lines
    new_bar,            \* how often events.new_bar._emit was called
    ToolTip,            \* AbstractChart.primitives['ToolTip']
    _data,              \* CandleBar._data: whether set, and the rows
    bar_ticks,          \* history: the ticks accepted for the chart's last bar
    fuel,               \* how many more calls the run makes
    last_op             \* history: the last call, its arguments and outcome

winvars == <<script_func, loaded, scripts, final_scripts, bulk_enabled,
             bulk_scripts, has_return_q, hung, bulk_used, pc, calls>>

seriesvars == <<kind, name, _interval, offset, _last_bar, data, candle_data,
                markers, _lines, new_bar, ToolTip, _data, bar_ticks>>

vars == <<script_func, loaded, scripts, final_scripts, bulk_enabled,
          bulk_scripts, has_return_q, hung, bulk_used, pc, calls, submitted, id_count,
          kind, name, _interval, offset, _last_bar, data, candle_data, markers,
          _lines, new_bar, ToolTip, _data, bar_ticks, fuel, last_op>>

\* ------------------------------------------------------------- sequences
EmptyFn == [x \in {} |-> 0]
Range(seq) == {seq[i] : i \in 1..Len(seq)}
RECURSIVE Flatten(_)
Flatten(ss) == IF ss = <<>> THEN <<>> ELSE Head(ss) \o Flatten(Tail(ss))

\* the scripts the page has evaluated, in order
Delivered == Flatten(calls)

\* ---------------------------------------------------------------- Window
\* the window's fields as one value, so that one handler can chain calls
Win == [loaded |-> loaded, scripts |-> scripts, final_scripts |-> final_scripts,
        bulk_enabled |-> bulk_enabled, bulk_scripts |-> bulk_scripts,
        calls |-> calls]

SetWin(w) ==
    /\ loaded' = w.loaded
    /\ scripts' = w.scripts
    /\ final_scripts' = w.final_scripts
    /\ bulk_enabled' = w.bulk_enabled
    /\ bulk_scripts' = w.bulk_scripts
    /\ calls' = w.calls

\* BulkRunScript.add_script
add_script(w, script) == [w EXCEPT !.bulk_scripts = Append(@, script)]

\* mutant: run_last is ignored
run_script_no_last(w, script, run_last) ==
    IF w.loaded
    THEN IF w.bulk_enabled
         THEN add_script(w, script)
         ELSE [w EXCEPT !.calls = Append(@, <<script>>)]
    ELSE [w EXCEPT !.scripts = Append(@, script)]

\* Window.run_script with script_func set
run_script(w, script, run_last) ==
    IF w.loaded
    THEN IF w.bulk_enabled
         THEN add_script(w, script)
         ELSE [w EXCEPT !.calls = Append(@, <<script>>)]
    ELSE IF run_last
         THEN [w EXCEPT !.final_scripts = Append(@, script)]
         ELSE [w EXCEPT !.scripts = Append(@, script)]

\* a handler's run_script calls, in order; ss[i] = [script, run_last]
RECURSIVE RunAll(_, _)
RunAll(w, ss) ==
    IF ss = <<>> THEN w
    ELSE RunAll(run_script(w, Head(ss).script, Head(ss).run_last), Tail(ss))

Script(op, id, payload) == [n |-> 0, op |-> op, id |-> id, data |-> payload]
Call(op, id, payload, run_last) ==
    [script |-> Script(op, id, payload), run_last |-> run_last]

\* number the calls of one handler after those already made
Numbered(ss) ==
    [i \in 1..Len(ss) |->
        [script |-> [ss[i].script EXCEPT !.n = Len(submitted) + i],
         run_last |-> ss[i].run_last,
         pre |-> ~loaded]]

\* a handler makes the run_script calls ss
Emit(ss) ==
    /\ SetWin(RunAll(Win, Numbered(ss)))
    /\ submitted' = submitted \o Numbered(ss)

NoTime == 0 - 1         \* no time given (None), or no 'time' key
NoVol == 0 - 1          \* no 'volume' entry
NoBar == [time |-> NoTime]

\* CandleBar.set was not called yet: there is no _data attribute
NoData == [set |-> FALSE, rows |-> <<>>]

\* no tick was accepted for the last bar, whose volume was base when a set or
\* an update made it the last bar
NoTicks(base) == [base |-> base, ticks |-> <<>>]

\* a call on object obj: its arguments (time, flag, bar, list, marker_id), the exception
\* it raised ("" when it returned) and the ids it returned
Op(op, obj) == [op |-> op, obj |-> obj, raised |-> "", ret |-> <<>>,
                time |-> NoTime, flag |-> FALSE, bar |-> NoBar, list |-> <<>>,
                marker_id |-> 0]
NoOp(op) == Op(op, 0)

Spend == fuel > 0 /\ fuel' = fuel - 1

\* Window.run_script called by the user
RunScript(run_last) ==
    /\ ~hung
    /\ Spend
    /\ IF script_func = "None"
       THEN /\ last_op' = [NoOp("run_script") EXCEPT !.raised = "AttributeError",
                                                     !.flag = run_last]
            /\ UNCHANGED <<loaded, scripts, final_scripts, bulk_enabled,
                           bulk_scripts, calls, submitted>>
       ELSE /\ Emit(<<Call("user", 0, <<>>, run_last)>>)
            /\ last_op' = [NoOp("run_script") EXCEPT !.flag = run_last]
    /\ UNCHANGED <<script_func, has_return_q, hung, bulk_used, pc, id_count, seriesvars>>

\* mutant: final_scripts are not replayed
Replay_no_final(w) == [w EXCEPT !.calls = Append(@, w.scripts)]

\* on_js_load's replay: scripts.extend(final_scripts), then one script_func
\* call with all of them joined
Replay(w) ==
    [w EXCEPT !.scripts = w.scripts \o w.final_scripts,
              !.calls = Append(@, w.scripts \o w.final_scripts)]

\* Window.on_js_load
OnJsLoad ==
    /\ ~hung
    /\ Spend
    /\ IF loaded
       THEN /\ last_op' = NoOp("on_js_load")
            /\ UNCHANGED <<winvars, submitted>>
       ELSE IF has_return_q /\ script_func = "None"
       THEN \* run_script raises out of the handler
            /\ loaded' = TRUE
            /\ last_op' = [NoOp("on_js_load") EXCEPT !.raised = "AttributeError"]
            /\ UNCHANGED <<script_func, scripts, final_scripts, bulk_enabled,
                           bulk_scripts, has_return_q, hung, calls, submitted>>
       ELSE IF has_return_q /\ bulk_enabled
       THEN \* the probe is buffered, never evaluated: _return_q.get() blocks
            /\ loaded' = TRUE
            /\ bulk_scripts' = bulk_scripts \o
                   <<[Script("readyState", 0, <<>>) EXCEPT !.n = Len(submitted) + 1]>>
            /\ submitted' = submitted \o
                   <<[script |-> [Script("readyState", 0, <<>>) EXCEPT !.n = Len(submitted) + 1],
                      run_last |-> FALSE, pre |-> FALSE]>>
            /\ hung' = TRUE
            /\ last_op' = [NoOp("on_js_load") EXCEPT !.raised = "blocked"]
            /\ UNCHANGED <<script_func, scripts, final_scripts, bulk_enabled,
                           has_return_q, calls>>
       ELSE \E k \in 0..MaxProbes :
            /\ (k > 0) = has_return_q
            /\ LET probes == [i \in 1..k |->
                                [script |-> [Script("readyState", 0, <<>>)
                                                EXCEPT !.n = Len(submitted) + i],
                                 run_last |-> FALSE, pre |-> FALSE]]
                   w1 == RunAll([Win EXCEPT !.loaded = TRUE], probes)
               IN /\ submitted' = submitted \o probes
                  /\ IF script_func = "None"
                     THEN \* script_func(initial_script) raises, after the extend
                          /\ SetWin([w1 EXCEPT !.scripts = Replay(w1).scripts])
                          /\ last_op' = [NoOp("on_js_load") EXCEPT !.raised = "TypeError"]
                     ELSE /\ SetWin(Replay(w1))
                          /\ last_op' = NoOp("on_js_load")
            /\ UNCHANGED <<script_func, has_return_q, hung>>
    /\ UNCHANGED <<bulk_used, pc, id_count, seriesvars>>

\* BulkRunScript.__enter__
BulkEnter ==
    /\ ~hung
    /\ Spend
    /\ script_func = "set"
    /\ ~bulk_enabled
    /\ bulk_enabled' = TRUE
    /\ bulk_used' = TRUE
    /\ last_op' = NoOp("bulk_enter")
    /\ UNCHANGED <<script_func, loaded, scripts, final_scripts, bulk_scripts,
                   has_return_q, hung, pc, calls, submitted, id_count, seriesvars>>

\* BulkRunScript.__exit__
BulkExit ==
    /\ ~hung
    /\ bulk_enabled
    /\ Spend
    /\ bulk_enabled' = FALSE
    /\ calls' = Append(calls, bulk_scripts)
    /\ bulk_scripts' = <<>>
    /\ last_op' = NoOp("bulk_exit")
    /\ UNCHANGED <<script_func, loaded, scripts, final_scripts, has_return_q,
                   hung, bulk_used, pc, submitted, id_count, seriesvars>>

\* Window.__init__(script_func, js_api_code)
InitWindow(sf, js_api_code) ==
    /\ script_func = sf
    /\ loaded = FALSE
    /\ scripts = IF js_api_code
                 THEN <<[Script("callbackFunction", 0, <<>>) EXCEPT !.n = 1]>>
                 ELSE <<>>
    /\ final_scripts = <<>>
    /\ bulk_enabled = FALSE
    /\ bulk_scripts = <<>>
    /\ hung = FALSE
    /\ pc = "idle"
    /\ bulk_used = FALSE
    /\ calls = <<>>
    /\ submitted = IF js_api_code
                   THEN <<[script |-> [Script("callbackFunction", 0, <<>>) EXCEPT !.n = 1],
                           run_last |-> FALSE, pre |-> TRUE]>>
                   ELSE <<>>

\* no chart was constructed yet
NoPanes ==
    /\ kind = EmptyFn /\ name = EmptyFn /\ _interval = EmptyFn /\ offset = EmptyFn
    /\ _last_bar = EmptyFn /\ data = EmptyFn /\ candle_data = EmptyFn
    /\ markers = EmptyFn
    /\ _lines = <<>>
    /\ new_bar = 0
    /\ ToolTip = FALSE
    /\ _data = NoData
    /\ bar_ticks = NoTicks(NoVol)

Init ==
    /\ \E sf \in {"set", "None"}, js \in BOOLEAN :
          /\ (sf = "None" => ~js)
          /\ InitWindow(sf, js)
    /\ has_return_q \in BOOLEAN
    /\ id_count = 0
    /\ NoPanes
    /\ fuel = MaxCalls
    /\ last_op = NoOp("init")

Next ==
    \/ \E run_last \in BOOLEAN : RunScript(run_last)
    \/ OnJsLoad
    \/ BulkEnter
    \/ BulkExit

Spec == Init /\ [][Next]_vars
\* ----------------------------------------------------------------- chart
Names == {"", "a"}      \* series names: none, or the column "a"

\* the chart, once constructed (its id is the first one generated)
Chart == CHOOSE c \in DOMAIN kind : kind[c] = "Chart"
Panes == DOMAIN kind

\* SeriesCommon.__init__ for a new pane p of class k
NewPane(p, k, nm, interval) ==
    /\ kind' = kind @@ (p :> k)
    /\ name' = name @@ (p :> nm)
    /\ _interval' = _interval @@ (p :> interval)
    /\ offset' = offset @@ (p :> 0)
    /\ _last_bar' = _last_bar @@ (p :> NoBar)
    /\ data' = data @@ (p :> <<>>)
    /\ candle_data' = candle_data @@ (p :> <<>>)
    /\ markers' = markers @@ (p :> <<>>)

\* AbstractChart.__init__: Pane.__init__ generates the id, the Handler script
\* is sent, Candlestick.__init__ sets the series fields
CreateChart ==
    /\ ~hung
    /\ Spend
    /\ script_func = "set"
    /\ Panes = {}
    /\ id_count' = id_count + 1
    /\ NewPane(id_count + 1, "Chart", "", 1)
    /\ _lines' = <<>>
    /\ Emit(<<Call("Handler", id_count + 1, <<>>, FALSE)>>)
    /\ last_op' = [Op("AbstractChart", id_count + 1) EXCEPT !.ret = <<id_count + 1>>]
    /\ ToolTip' = FALSE
    /\ UNCHANGED <<script_func, has_return_q, hung, bulk_used, pc, new_bar, _data, bar_ticks>>

\* a create_* method whose legend_symbol check fails
CreateRaises(op, exc) ==
    /\ last_op' = [Op(op, Chart) EXCEPT !.raised = exc]
    /\ UNCHANGED <<winvars, submitted, id_count, seriesvars>>

\* the constructor of a series class k: SeriesCommon.__init__ (the interval
\* is the chart's) and the create script; listed: create_* appends it to _lines
NewSeries(op, k, nm, listed) ==
    /\ id_count' = id_count + 1
    /\ NewPane(id_count + 1, k, nm, _interval[Chart])
    /\ Emit(<<Call(op, id_count + 1, <<>>, FALSE)>>)
    /\ _lines' = IF listed THEN Append(_lines, id_count + 1) ELSE _lines
    /\ last_op' = [Op(op, Chart) EXCEPT !.ret = <<id_count + 1>>]
    /\ UNCHANGED <<script_func, has_return_q, hung, bulk_used, pc, new_bar, ToolTip,
                   _data, bar_ticks>>

CanCreate == ~hung /\ Panes # {} /\ Spend

\* AbstractChart.create_line
CreateLine(nm, legend_ok) ==
    /\ CanCreate
    /\ IF ~legend_ok THEN CreateRaises("createLineSeries", "TypeError")
       ELSE NewSeries("createLineSeries", "Line", nm, TRUE)

\* AbstractChart.create_histogram
CreateHistogram(nm, legend_ok) ==
    /\ CanCreate
    /\ IF ~legend_ok THEN CreateRaises("createHistogramSeries", "TypeError")
       ELSE NewSeries("createHistogramSeries", "Histogram", nm, FALSE)

\* AbstractChart.create_area
CreateArea(nm, legend_ok) ==
    /\ CanCreate
    /\ IF ~legend_ok THEN CreateRaises("createAreaSeries", "TypeError")
       ELSE NewSeries("createAreaSeries", "Area", nm, TRUE)

\* AbstractChart.create_bar
CreateBar(nm, legend_ok) ==
    /\ CanCreate
    /\ IF ~legend_ok THEN CreateRaises("createBarSeries", "TypeError")
       ELSE NewSeries("createBarSeries", "Bar", nm, FALSE)

\* AbstractChart.create_custom_candle
CreateCustomCandle(nm, legend_ok) ==
    /\ CanCreate
    /\ IF ~legend_ok THEN CreateRaises("createCustomCandleSeries", "TypeError")
       ELSE NewSeries("createCustomCandleSeries", "CustomCandle", nm, FALSE)

\* AbstractChart.create_htf_candle
CreateHTFCandle(nm, legend_ok) ==
    /\ CanCreate
    /\ IF ~legend_ok THEN CreateRaises("createHigherTFCandleSeries", "TypeError")
       ELSE NewSeries("createHigherTFCandleSeries", "HTFCandle", nm, FALSE)

\* list.remove(x): the first occurrence goes
RECURSIVE Remove(_, _)
Remove(seq, x) ==
    IF seq = <<>> THEN <<>>
    ELSE IF Head(seq) = x THEN Tail(seq)
    ELSE <<Head(seq)>> \o Remove(Tail(seq), x)

\* the classes whose delete() removes the series from chart._lines:
\* SeriesCommon.delete (inherited by the chart), Line.delete, Area.delete
DeleteUnlists(k) == k \in {"Chart", "Line", "Area"}

\* delete() of the series s, by its class
Delete(s) ==
    /\ ~hung
    /\ Spend
    /\ s \in Panes
    /\ _lines' = IF DeleteUnlists(kind[s]) /\ s \in Range(_lines)
                 THEN Remove(_lines, s) ELSE _lines
    /\ Emit(<<Call("removeSeries", s, <<>>, FALSE)>>)
    /\ last_op' = Op("delete", s)
    /\ UNCHANGED <<script_func, has_return_q, hung, bulk_used, pc, id_count, kind, name,
                   _interval, offset, _last_bar, data, candle_data, markers, new_bar,
                   ToolTip, _data, bar_ticks>>

\* AbstractChart.lines
lines == _lines

MaxChartCalls == 4

\* a window, on which a chart is constructed and series are created and deleted
InitChart ==
    /\ InitWindow("set", FALSE)
    /\ has_return_q = FALSE
    /\ id_count = 0
    /\ NoPanes
    /\ fuel = MaxChartCalls
    /\ last_op = NoOp("init")

NextChart ==
    \/ OnJsLoad
    \/ CreateChart
    \/ \E nm \in Names, ok \in BOOLEAN : CreateLine(nm, ok)
    \/ \E nm \in Names, ok \in BOOLEAN : CreateHistogram(nm, ok)
    \/ \E nm \in Names, ok \in BOOLEAN : CreateArea(nm, ok)
    \/ \E nm \in Names, ok \in BOOLEAN : CreateBar(nm, ok)
    \/ \E nm \in Names, ok \in BOOLEAN : CreateCustomCandle(nm, ok)
    \/ \E nm \in Names, ok \in BOOLEAN : CreateHTFCandle(nm, ok)
    \/ \E s \in Panes : Delete(s)

SpecChart == InitChart /\ [][NextChart]_vars

\* ---------------------------------------------------------------- series
Last(seq) == seq[Len(seq)]

\* _last_bar is not None
HasBar(s) == _last_bar[s].time # NoTime

\* pandas value_counts().index[0]: a most frequent value of the column; which
\* one of several equally frequent values comes first is up to pandas
Occurrences(seq, v) == Cardinality({i \in 1..Len(seq) : seq[i] = v})
Modes(seq) ==
    {v \in Range(seq) : \A u \in Range(seq) : Occurrences(seq, u) <= Occurrences(seq, v)}

\* df['time'].diff(), without the leading NaT
Diffs(times) == [i \in 1..(Len(times) - 1) |-> times[i + 1] - times[i]]

\* the dt.second, dt.minute, dt.hour, dt.day columns
Seconds(times) == [i \in 1..Len(times) |-> times[i] % 60]
Minutes(times) == [i \in 1..Len(times) |-> (times[i] \div 60) % 60]
Hours(times) == [i \in 1..Len(times) |-> (times[i] \div 3600) % 24]
Days(times) == [i \in 1..Len(times) |-> 1 + (times[i] \div 86400)]

\* the units list of _set_interval, in seconds (whole seconds: no microseconds)
Units(times) ==
    {<<0, sec, 60 * min, 3600 * hr, 86400 * day>> :
        sec \in Modes(Seconds(times)), min \in Modes(Minutes(times)),
        hr \in Modes(Hours(times)), day \in Modes(Days(times))}

\* the loop over units: zero units are skipped; the first other one is the
\* offset if it is below the interval, and ends the loop either way
RECURSIVE OffsetFrom(_, _)
OffsetFrom(units, interval) ==
    IF units = <<>> THEN 0
    ELSE IF Head(units) = 0 THEN OffsetFrom(Tail(units), interval)
    ELSE IF Head(units) >= interval THEN 0
    ELSE Head(units)

\* SeriesCommon._set_interval: the <<_interval, offset>> it can leave on s
set_interval(s, times) ==
    IF Diffs(times) = <<>>
    THEN {<<_interval[s], offset[s]>>}
    ELSE {<<i, OffsetFrom(u, i)>> : i \in Modes(Diffs(times)), u \in Units(times)}

\* SeriesCommon._single_datetime_format
single_datetime_format(s, t) == _interval[s] * (t \div _interval[s]) + offset[s]

\* SeriesCommon._series_datetime_format: a copy with the time formatted
series_datetime_format(s, series) ==
    [series EXCEPT !.time = single_datetime_format(s, series.time)]

\* the rows of a DataFrame with columns time, open, high, low, close[, volume]
CandleRows(times, vol) ==
    [i \in 1..Len(times) |->
        [time |-> times[i], open |-> 2, high |-> 2, low |-> 2, close |-> 2,
         volume |-> IF vol THEN 5 ELSE NoVol]]

\* the rows of a DataFrame with columns time, value
ValueRows(times) == [i \in 1..Len(times) |-> [time |-> times[i], value |-> 2]]

\* the volume series' row for a bar
VolumeRow(bar) ==
    [time |-> bar.time, value |-> bar.volume,
     color |-> IF bar.close > bar.open THEN "up" ELSE "down"]
VolumeRows(rows) == [i \in 1..Len(rows) |-> VolumeRow(rows[i])]

SeriesFrame == <<script_func, has_return_q, hung, bulk_used, pc, id_count, kind, name,
                 _lines, ToolTip, _data>>

\* SeriesCommon.set(df) on a Line, Area or Histogram; named: df has the column
\* self.name
SeriesSet(s, times, named) ==
    /\ ~hung
    /\ Spend
    /\ s \in Panes /\ kind[s] \in {"Line", "Area", "Histogram"}
    /\ IF times = <<>>
       THEN /\ Emit(<<Call("setData", s, <<>>, FALSE)>>)
            /\ data' = [data EXCEPT ![s] = <<>>]
            /\ last_op' = Op("set", s)
            /\ UNCHANGED <<_interval, offset, _last_bar>>
       ELSE \E io \in set_interval(s, times) :
            /\ _interval' = [_interval EXCEPT ![s] = io[1]]
            /\ offset' = [offset EXCEPT ![s] = io[2]]
            /\ IF name[s] # "" /\ ~named
               THEN /\ last_op' = [Op("set", s) EXCEPT !.raised = "NameError"]
                    /\ UNCHANGED <<loaded, scripts, final_scripts, bulk_enabled,
                                   bulk_scripts, calls, submitted, data, _last_bar>>
               ELSE /\ data' = [data EXCEPT ![s] = ValueRows(times)]
                    /\ _last_bar' = [_last_bar EXCEPT ![s] = Last(ValueRows(times))]
                    /\ Emit(<<Call("setData", s, ValueRows(times), FALSE)>>)
                    /\ last_op' = Op("set", s)
    /\ UNCHANGED <<SeriesFrame, candle_data, markers, new_bar, bar_ticks>>

\* Bar.set(df), CustomCandle.set(df), HTFCandle.set(df); for an empty df
\* Bar.set empties candle_data, the other two data
BarSet(s, times, vol) ==
    /\ ~hung
    /\ Spend
    /\ s \in Panes /\ kind[s] \in {"Bar", "CustomCandle", "HTFCandle"}
    /\ IF times = <<>>
       THEN /\ Emit(<<Call("setData", s, <<>>, FALSE)>>)
            /\ IF kind[s] = "Bar"
               THEN candle_data' = [candle_data EXCEPT ![s] = <<>>] /\ UNCHANGED data
               ELSE data' = [data EXCEPT ![s] = <<>>] /\ UNCHANGED candle_data
            /\ UNCHANGED <<_interval, offset, _last_bar>>
       ELSE \E io \in set_interval(s, times) :
            /\ _interval' = [_interval EXCEPT ![s] = io[1]]
            /\ offset' = [offset EXCEPT ![s] = io[2]]
            /\ data' = [data EXCEPT ![s] = CandleRows(times, vol)]
            /\ _last_bar' = [_last_bar EXCEPT ![s] = Last(CandleRows(times, vol))]
            /\ Emit(<<Call("setData", s, CandleRows(times, vol), FALSE)>>)
            /\ UNCHANGED candle_data
    /\ last_op' = Op("set", s)
    /\ UNCHANGED <<SeriesFrame, markers, new_bar, bar_ticks>>

\* the lines Candlestick.set passes a column of df to
LinesIn(extra) == SelectSeq(_lines, LAMBDA l : name[l] \in extra)

\* Candlestick.set(df, keep_drawings) on the chart; vol: df has a volume
\* column; extra: its further columns
CandleSet(times, vol, extra, keep_drawings) ==
    /\ ~hung
    /\ Spend
    /\ Panes # {}
    /\ IF times = <<>>
       THEN /\ Emit(<<Call("setData", Chart, <<>>, FALSE),
                      Call("volumeSetData", Chart, <<>>, FALSE)>>)
            /\ candle_data' = [candle_data EXCEPT ![Chart] = <<>>]
            /\ UNCHANGED <<_interval, offset, _last_bar, data, bar_ticks>>
       ELSE \E io \in set_interval(Chart, times) :
            LET rows == CandleRows(times, vol)
                set_lines == LinesIn(extra)
            IN /\ _interval' = [_interval EXCEPT ![Chart] = io[1]]
               /\ offset' = [offset EXCEPT ![Chart] = io[2]]
               /\ candle_data' = [candle_data EXCEPT ![Chart] = rows]
               /\ bar_ticks' = NoTicks(Last(rows).volume)
               /\ IF ~vol
                  THEN \* 'volume' not in df: return
                       /\ _last_bar' = [_last_bar EXCEPT ![Chart] = Last(rows)]
                       /\ Emit(<<Call("setData", Chart, rows, FALSE)>>)
                       /\ UNCHANGED data
                  ELSE /\ _last_bar' =
                            [p \in Panes |->
                                IF p = Chart THEN Last(rows)
                                ELSE IF p \in Range(set_lines) THEN Last(ValueRows(times))
                                ELSE _last_bar[p]]
                       /\ data' =
                            [p \in Panes |->
                                IF p \in Range(set_lines) THEN ValueRows(times)
                                ELSE data[p]]
                       /\ Emit(<<Call("setData", Chart, rows, FALSE),
                                 Call("volumeSetData", Chart, VolumeRows(rows), FALSE)>>
                               \o [i \in 1..Len(set_lines) |->
                                      Call("setData", set_lines[i], ValueRows(times), FALSE)]
                               \o <<Call("autoScale", Chart, <<>>, FALSE),
                                    Call(IF keep_drawings THEN "repositionOnTime"
                                         ELSE "clearDrawings", Chart, <<>>, FALSE)>>)
    /\ last_op' = [Op("set", Chart) EXCEPT !.flag = keep_drawings]
    /\ UNCHANGED <<SeriesFrame, markers, new_bar>>

Max(a, b) == IF a >= b THEN a ELSE b
Min(a, b) == IF a <= b THEN a ELSE b

\* mutant: the last row keeps its values
WriteNone(rows, bar) == rows

\* data.loc[data.index[-1]] = _last_bar
WriteLast(rows, bar) == [rows EXCEPT ![Len(rows)] = bar]

\* the bar's time is not the last bar's: update starts a new row
IsNewBar(s, series) == series.time # _last_bar[s].time

\* what update raises for the formatted series, rows being the stored rows:
\* None['time'] is a TypeError, index[-1] of an empty index an IndexError
UpdateRaises(s, series, rows) ==
    IF ~HasBar(s) THEN "TypeError"
    ELSE IF IsNewBar(s, series) /\ rows = <<>> THEN "IndexError"
    ELSE ""

UpdateFrame == <<SeriesFrame, _interval, offset, markers>>

\* SeriesCommon.update(series) on a Line, Area or Histogram
SeriesUpdate(s, series) ==
    /\ ~hung
    /\ Spend
    /\ s \in Panes /\ kind[s] \in {"Line", "Area", "Histogram"}
    /\ LET f == series_datetime_format(s, series)
           o == [Op("update", s) EXCEPT !.time = series.time, !.bar = series]
       IN IF HasBar(s) /\ IsNewBar(s, f) /\ data[s] = <<>>
          THEN /\ last_op' = [o EXCEPT !.raised = "IndexError"]
               /\ UNCHANGED <<loaded, scripts, final_scripts, bulk_enabled,
                              bulk_scripts, calls, submitted, data, _last_bar>>
          ELSE /\ data' = IF HasBar(s) /\ IsNewBar(s, f)
                          THEN [data EXCEPT ![s] = Append(WriteLast(@, _last_bar[s]), f)]
                          ELSE data
               /\ _last_bar' = [_last_bar EXCEPT ![s] = f]
               /\ Emit(<<Call("update", s, <<f>>, FALSE)>>)
               /\ last_op' = o
    /\ UNCHANGED <<UpdateFrame, candle_data, new_bar, bar_ticks>>

\* Bar.update(series), CustomCandle.update(series), HTFCandle.update(series)
BarUpdate(s, series) ==
    /\ ~hung
    /\ Spend
    /\ s \in Panes /\ kind[s] \in {"Bar", "CustomCandle", "HTFCandle"}
    /\ LET f == series_datetime_format(s, series)
           o == [Op("update", s) EXCEPT !.time = series.time, !.bar = series]
           raised == UpdateRaises(s, f, data[s])
       IN IF raised # ""
          THEN /\ last_op' = [o EXCEPT !.raised = raised]
               /\ UNCHANGED <<loaded, scripts, final_scripts, bulk_enabled,
                              bulk_scripts, calls, submitted, data, _last_bar, new_bar>>
          ELSE /\ data' = IF IsNewBar(s, f)
                          THEN [data EXCEPT ![s] = Append(WriteLast(@, _last_bar[s]), f)]
                          ELSE data
               /\ new_bar' = IF IsNewBar(s, f) THEN new_bar + 1 ELSE new_bar
               /\ _last_bar' = [_last_bar EXCEPT ![s] = f]
               /\ Emit(<<Call("update", s, <<f>>, FALSE)>>)
               /\ last_op' = o
    /\ UNCHANGED <<UpdateFrame, candle_data, bar_ticks>>

\* Candlestick.update(series, _from_tick) on the chart, series formatted;
\* o records the call that is being served, h the history if it succeeds
candle_update(series, o, h) ==
    LET raised == UpdateRaises(Chart, series, candle_data[Chart])
    IN IF raised # ""
       THEN /\ last_op' = [o EXCEPT !.raised = raised]
            /\ UNCHANGED <<loaded, scripts, final_scripts, bulk_enabled,
                           bulk_scripts, calls, submitted, candle_data, _last_bar,
                           new_bar, bar_ticks>>
       ELSE /\ bar_ticks' = h
            /\ candle_data' =
                 IF IsNewBar(Chart, series)
                 THEN [candle_data EXCEPT
                          ![Chart] = Append(WriteLast(@, _last_bar[Chart]), series)]
                 ELSE candle_data
            /\ new_bar' = IF IsNewBar(Chart, series) THEN new_bar + 1 ELSE new_bar
            /\ _last_bar' = [_last_bar EXCEPT ![Chart] = series]
            /\ Emit(<<Call("update", Chart, <<series>>, FALSE)>>
                    \o IF series.volume # NoVol
                       THEN <<Call("volumeUpdate", Chart, <<VolumeRow(series)>>, FALSE)>>
                       ELSE <<>>)
            /\ last_op' = o

\* Candlestick.update(series) called by the user
CandleUpdate(series) ==
    /\ ~hung
    /\ Spend
    /\ Panes # {}
    /\ candle_update(series_datetime_format(Chart, series),
                     [Op("update", Chart) EXCEPT !.time = series.time, !.bar = series],
                     NoTicks(series.volume))
    /\ UNCHANGED <<UpdateFrame, data>>

\* mutant: no tick is refused
TickNeverEarly(tick_time, last_time) == FALSE

\* update_from_tick refuses a tick before the last bar
TickTooEarly(tick_time, last_time) == tick_time < last_time

\* mutant: the high follows the price down
TickHLC_min(bar, price) ==
    [bar EXCEPT !.high = Min(bar.high, price),
                !.low = Min(bar.low, price),
                !.close = price]

\* the last bar after a tick in it, but for the volume
TickHLC(bar, price) ==
    [bar EXCEPT !.high = Max(bar.high, price),
                !.low = Min(bar.low, price),
                !.close = price]

\* mutant: the tick's volume always replaces the bar's
TickVolume_replace(old, volume, cumulative) == IF volume = NoVol THEN old ELSE volume

\* the last bar's volume after a tick in it
TickVolume(old, volume, cumulative) ==
    IF volume = NoVol THEN old
    ELSE IF cumulative THEN old + volume
    ELSE volume

\* the bar a tick after the last bar starts
TickNewBar(tick) ==
    [time |-> tick.time, open |-> tick.price, high |-> tick.price,
     low |-> tick.price, close |-> tick.price, volume |-> tick.volume]

\* Candlestick.update_from_tick(series, cumulative_volume); tick: time, price,
\* volume (NoVol: none)
UpdateFromTick(tick, cumulative) ==
    /\ ~hung
    /\ Spend
    /\ Panes # {}
    /\ LET f == series_datetime_format(Chart, tick)
           last == _last_bar[Chart]
           o == [Op("update_from_tick", Chart)
                    EXCEPT !.time = tick.time, !.bar = tick, !.flag = cumulative]
           Raise(exc) ==
               /\ last_op' = [o EXCEPT !.raised = exc]
               /\ UNCHANGED <<loaded, scripts, final_scripts, bulk_enabled,
                              bulk_scripts, calls, submitted, candle_data, new_bar,
                              bar_ticks>>
           t == [time |-> f.time, price |-> f.price, volume |-> f.volume,
                 cumulative |-> cumulative, opens |-> f.time # last.time]
       IN IF ~HasBar(Chart)
          THEN Raise("TypeError") /\ UNCHANGED _last_bar
          ELSE IF TickTooEarly(f.time, last.time)
          THEN Raise("ValueError") /\ UNCHANGED _last_bar
          ELSE IF f.time = last.time
          THEN IF f.volume # NoVol /\ cumulative /\ last.volume = NoVol
               THEN \* bar['volume'] += ...: KeyError, bar being _last_bar itself
                    /\ Raise("KeyError")
                    /\ _last_bar' = [_last_bar EXCEPT ![Chart] = TickHLC(last, f.price)]
               ELSE candle_update(
                        [TickHLC(last, f.price) EXCEPT
                            !.volume = TickVolume(@, f.volume, cumulative)], o,
                        [bar_ticks EXCEPT !.ticks = Append(@, t)])
          ELSE candle_update(TickNewBar(f), o, [base |-> 0, ticks |-> <<t>>])
    /\ UNCHANGED <<UpdateFrame, data>>

\* ---------------------------------------------------------------- markers
\* marker_position of util.py
MarkerPosition(p) ==
    CASE p = "above" -> "aboveBar"
      [] p = "below" -> "belowBar"
      [] p = "inside" -> "inBar"

\* the dict marker() and marker_list() store under the marker's id
MarkerValue(t, position) ==
    [time |-> t, position |-> MarkerPosition(position), color |-> "#2196F3",
     shape |-> "arrowUp", text |-> ""]

\* list(self.markers.values())
Values(ms) == [i \in 1..Len(ms) |-> ms[i].m]
Keys(ms) == {ms[i].id : i \in 1..Len(ms)}

\* SeriesCommon._update_markers, the markers being ms
update_markers(s, ms) == Emit(<<Call("setMarkers", s, Values(ms), FALSE)>>)

MarkerFrame == <<script_func, has_return_q, hung, bulk_used, pc, kind, name, _lines,
                 _interval, offset, _last_bar, data, candle_data, new_bar, ToolTip,
                 _data, bar_ticks>>

\* marker() finds no bar to take the time from
MarkerNoData(s, t) == t = NoTime /\ ~HasBar(s)

\* SeriesCommon.marker(time, position); t = NoTime: no time given
Marker(s, t, position) ==
    /\ ~hung
    /\ Spend
    /\ s \in Panes
    /\ LET o == [Op("marker", s) EXCEPT !.time = t]
       IN IF MarkerNoData(s, t)
          THEN /\ last_op' = [o EXCEPT !.raised = "TypeError"]
               /\ UNCHANGED <<loaded, scripts, final_scripts, bulk_enabled,
                              bulk_scripts, calls, submitted, id_count, markers>>
          ELSE LET formatted_time == IF t = NoTime THEN _last_bar[s].time
                                     ELSE single_datetime_format(s, t)
                   marker_id == id_count + 1
                   ms == Append(markers[s],
                                [id |-> marker_id, m |-> MarkerValue(formatted_time, position)])
               IN /\ id_count' = marker_id
                  /\ markers' = [markers EXCEPT ![s] = ms]
                  /\ update_markers(s, ms)
                  /\ last_op' = [o EXCEPT !.ret = <<marker_id>>]
    /\ UNCHANGED MarkerFrame

\* the first marker of the list without a 'time' key, 0 if there is none
FirstBad(list) ==
    IF \E i \in 1..Len(list) : list[i].time = NoTime
    THEN CHOOSE i \in 1..Len(list) :
            /\ list[i].time = NoTime
            /\ \A j \in 1..(i - 1) : list[j].time # NoTime
    ELSE 0

\* the markers the loop of marker_list has stored after k rounds
Stored(s, list, k) ==
    markers[s] \o [i \in 1..k |->
                     [id |-> id_count + i,
                      m |-> MarkerValue(single_datetime_format(s, list[i].time),
                                        list[i].position)]]

\* SeriesCommon.marker_list(markers); a marker is [time, position], time =
\* NoTime standing for a dict without the key
MarkerList(s, list) ==
    /\ ~hung
    /\ Spend
    /\ s \in Panes
    /\ LET o == [Op("marker_list", s) EXCEPT !.list = list]
           bad == FirstBad(list)
       IN IF bad # 0
          THEN \* marker['time'] raises KeyError in round bad, its id generated
               /\ id_count' = id_count + bad
               /\ markers' = [markers EXCEPT ![s] = Stored(s, list, bad - 1)]
               /\ last_op' = [o EXCEPT !.raised = "KeyError"]
               /\ UNCHANGED <<loaded, scripts, final_scripts, bulk_enabled,
                              bulk_scripts, calls, submitted>>
          ELSE /\ id_count' = id_count + Len(list)
               /\ markers' = [markers EXCEPT ![s] = Stored(s, list, Len(list))]
               /\ update_markers(s, Stored(s, list, Len(list)))
               /\ last_op' = [o EXCEPT !.ret = [i \in 1..Len(list) |-> id_count + i]]
    /\ UNCHANGED MarkerFrame

\* mutant: the oldest marker goes, whichever id is given
PopFirst(ms, marker_id) == Tail(ms)

\* dict.pop(marker_id)
Pop(ms, marker_id) == SelectSeq(ms, LAMBDA e : e.id # marker_id)

\* SeriesCommon.remove_marker(marker_id)
RemoveMarker(s, marker_id) ==
    /\ ~hung
    /\ Spend
    /\ s \in Panes
    /\ LET o == [Op("remove_marker", s) EXCEPT !.marker_id = marker_id]
       IN IF marker_id \notin Keys(markers[s])
          THEN /\ last_op' = [o EXCEPT !.raised = "KeyError"]
               /\ UNCHANGED <<loaded, scripts, final_scripts, bulk_enabled,
                              bulk_scripts, calls, submitted, markers>>
          ELSE /\ markers' = [markers EXCEPT ![s] = Pop(@, marker_id)]
               /\ update_markers(s, Pop(markers[s], marker_id))
               /\ last_op' = o
    /\ UNCHANGED <<MarkerFrame, id_count>>

\* SeriesCommon.clear_markers
ClearMarkers(s) ==
    /\ ~hung
    /\ Spend
    /\ s \in Panes
    /\ markers' = [markers EXCEPT ![s] = <<>>]
    /\ update_markers(s, <<>>)
    /\ last_op' = Op("clear_markers", s)
    /\ UNCHANGED <<MarkerFrame, id_count>>

\* ------------------------------------------------------- charts with data
\* the script a class's constructor sends
CreateOp(k) ==
    CASE k = "Chart" -> "Handler"
      [] k = "Line" -> "createLineSeries"
      [] k = "Histogram" -> "createHistogramSeries"
      [] k = "Area" -> "createAreaSeries"
      [] k = "Bar" -> "createBarSeries"
      [] k = "CustomCandle" -> "createCustomCandleSeries"
      [] k = "HTFCandle" -> "createHigherTFCandleSeries"

\* the state after Window("set"), AbstractChart(window) and one create_* call
\* per class in ks, each series named nm; the page has not loaded yet
Constructed(ks, nm) ==
    LET n == 1 + Len(ks)
        K(p) == IF p = 1 THEN "Chart" ELSE ks[p - 1]
        created == [p \in 1..n |->
                      [script |-> [Script(CreateOp(K(p)), p, <<>>) EXCEPT !.n = p],
                       run_last |-> FALSE, pre |-> TRUE]]
    IN /\ script_func = "set"
       /\ loaded = FALSE
       /\ scripts = [p \in 1..n |-> created[p].script]
       /\ final_scripts = <<>>
       /\ bulk_enabled = FALSE
       /\ bulk_scripts = <<>>
       /\ has_return_q = FALSE
       /\ hung = FALSE
       /\ pc = "idle"
       /\ bulk_used = FALSE
       /\ calls = <<>>
       /\ submitted = created
       /\ id_count = n
       /\ kind = [p \in 1..n |-> K(p)]
       /\ name = [p \in 1..n |-> IF p = 1 THEN "" ELSE nm]
       /\ _interval = [p \in 1..n |-> 1]
       /\ offset = [p \in 1..n |-> 0]
       /\ _last_bar = [p \in 1..n |-> NoBar]
       /\ data = [p \in 1..n |-> <<>>]
       /\ candle_data = [p \in 1..n |-> <<>>]
       /\ markers = [p \in 1..n |-> <<>>]
       /\ _lines = SelectSeq([p \in 1..n |-> p], LAMBDA p : K(p) \in {"Line", "Area"})
       /\ new_bar = 0
       /\ ToolTip = FALSE
       /\ _data = NoData
       /\ bar_ticks = NoTicks(NoVol)
       /\ last_op = IF n = 1 THEN [Op("AbstractChart", 1) EXCEPT !.ret = <<1>>]
                    ELSE [Op(CreateOp(K(n)), 1) EXCEPT !.ret = <<n>>]

\* the inputs: the time columns of the frames, the times of bars and ticks,
\* the bars passed to update, the ticks
Frames == {<<>>, <<2>>, <<1, 3>>}
Times == {1, 3, 4}
Bars == {[time |-> t, open |-> 1, high |-> 3, low |-> 1, close |-> 3, volume |-> v] :
            t \in Times, v \in {NoVol, 2}}
Ticks == {[time |-> t, price |-> pr, volume |-> v] :
            t \in Times, pr \in {1, 3}, v \in {NoVol, 1}}
Values2 == {[time |-> t, value |-> 4] : t \in Times}

MaxBarCalls == 3

\* a chart and a bar series, set and updated
InitBars ==
    /\ Constructed(<<"Bar">>, "")
    /\ fuel = MaxBarCalls

NextBars ==
    \/ OnJsLoad
    \/ \E times \in Frames, vol \in BOOLEAN, keep \in BOOLEAN :
          CandleSet(times, vol, {}, keep)
    \/ \E s \in Panes, times \in Frames, vol \in BOOLEAN : BarSet(s, times, vol)
    \/ \E series \in Bars : CandleUpdate(series)
    \/ \E s \in Panes, series \in Bars : BarUpdate(s, series)

SpecBars == InitBars /\ [][NextBars]_vars

MaxTickCalls == 3

\* a chart, set and updated from bars and from ticks
InitTicks ==
    /\ Constructed(<<>>, "")
    /\ fuel = MaxTickCalls

NextTicks ==
    \/ OnJsLoad
    \/ \E times \in Frames, vol \in BOOLEAN : CandleSet(times, vol, {}, FALSE)
    \/ \E series \in Bars : CandleUpdate(series)
    \/ \E tick \in Ticks, cumulative \in BOOLEAN : UpdateFromTick(tick, cumulative)

SpecTicks == InitTicks /\ [][NextTicks]_vars

\* the lists passed to marker_list; NoTime: the dict has no 'time' key
MarkerLists ==
    {<<[time |-> 3, position |-> "above"], [time |-> NoTime, position |-> "below"]>>,
     <<[time |-> 4, position |-> "below"], [time |-> 1, position |-> "inside"]>>}

MaxMarkerCalls == 3

\* a chart and the line "a", with data and markers
InitMarkers ==
    /\ Constructed(<<"Line">>, "a")
    /\ fuel = MaxMarkerCalls

NextMarkers ==
    \/ OnJsLoad
    \/ \E times \in {<<>>, <<1, 3>>}, extra \in SUBSET {"a"} :
          CandleSet(times, TRUE, extra, FALSE)
    \/ \E s \in Panes, times \in {<<>>, <<1, 3>>} : SeriesSet(s, times, TRUE)
    \/ \E series \in {b \in Bars : b.volume # NoVol /\ b.time # 1} : CandleUpdate(series)
    \/ \E s \in Panes, series \in {v \in Values2 : v.time # 1} : SeriesUpdate(s, series)
    \/ \E s \in Panes, t \in {NoTime, 4} : Marker(s, t, "below")
    \/ \E s \in Panes, list \in MarkerLists : MarkerList(s, list)
    \/ \E s \in Panes, marker_id \in 1..(id_count + 1) : RemoveMarker(s, marker_id)
    \/ \E s \in Panes : ClearMarkers(s)

SpecMarkers == InitMarkers /\ [][NextMarkers]_vars

\* --------------------------------------------------------------- tooltips
\* SeriesCommon.tooltip on the series s. With the chart's flag set it calls
\* self._update_tooltip_follow_mode, which abstract.py does not define: either
\* there is none (AttributeError) or a base class provides one, taken to send
\* nothing
Tooltip(s) ==
    /\ ~hung
    /\ Spend
    /\ s \in Panes
    /\ IF ~ToolTip
       THEN /\ Emit(<<Call("attachTooltip", Chart, <<name[s]>>, FALSE)>>)
            /\ ToolTip' = TRUE
            /\ last_op' = Op("tooltip", s)
       ELSE /\ \E exc \in {"AttributeError", ""} :
                  last_op' = [Op("tooltip", s) EXCEPT !.raised = exc]
            /\ UNCHANGED <<loaded, scripts, final_scripts, bulk_enabled, bulk_scripts,
                           calls, submitted, ToolTip>>
    /\ UNCHANGED <<script_func, has_return_q, hung, bulk_used, pc, id_count, kind, name,
                   _interval, offset, _last_bar, data, candle_data, markers, _lines,
                   new_bar, _data, bar_ticks>>

\* SeriesCommon.detach_tooltip on the series s
DetachTooltip(s) ==
    /\ ~hung
    /\ Spend
    /\ s \in Panes
    /\ IF ToolTip
       THEN /\ Emit(<<Call("detachTooltip", Chart, <<name[s]>>, FALSE)>>)
            /\ ToolTip' = FALSE
       ELSE UNCHANGED <<loaded, scripts, final_scripts, bulk_enabled, bulk_scripts,
                        calls, submitted, ToolTip>>
    /\ last_op' = Op("detach_tooltip", s)
    /\ UNCHANGED <<script_func, has_return_q, hung, bulk_used, pc, id_count, kind, name,
                   _interval, offset, _last_bar, data, candle_data, markers, _lines,
                   new_bar, _data, bar_ticks>>

MaxTooltipCalls == 4

\* a chart and the line "a", with tooltips attached and detached
InitTooltips ==
    /\ Constructed(<<"Line">>, "a")
    /\ fuel = MaxTooltipCalls

NextTooltips ==
    \/ OnJsLoad
    \/ \E s \in Panes : Tooltip(s)
    \/ \E s \in Panes : DetachTooltip(s)

SpecTooltips == InitTooltips /\ [][NextTooltips]_vars

\* -------------------------------------------------------------- CandleBar
\* the CandleBar's _bar_chart: the chart's one Bar series
HasCandleBar == \E b \in Panes : kind[b] = "Bar"
BarChart == CHOOSE b \in Panes : kind[b] = "Bar"

\* CandleBar.__init__(chart, name): Bar(chart, name + "_Bar"), then
\* chart.candle_style and chart.volume_config
CreateCandleBar(nm) ==
    /\ ~hung
    /\ Spend
    /\ Panes # {} /\ ~HasCandleBar
    /\ id_count' = id_count + 1
    /\ NewPane(id_count + 1, "Bar", nm, _interval[Chart])
    /\ Emit(<<Call("createBarSeries", id_count + 1, <<>>, FALSE),
              Call("applyOptions", Chart, <<>>, FALSE),
              Call("volumeApplyOptions", Chart, <<>>, FALSE)>>)
    /\ last_op' = [Op("CandleBar", Chart) EXCEPT !.ret = <<id_count + 1>>]
    /\ UNCHANGED <<script_func, has_return_q, hung, bulk_used, pc, _lines, new_bar,
                   ToolTip, _data, bar_ticks>>

\* bars.loc[visibility_condition, ['open', 'high', 'low', 'close']] = None
NoPrice == 0 - 1
HideRows(rows, cond) ==
    [i \in 1..Len(rows) |->
        IF cond THEN [rows[i] EXCEPT !.open = NoPrice, !.high = NoPrice,
                                     !.low = NoPrice, !.close = NoPrice]
        ELSE rows[i]]

\* CandleBar.set(df, condition_func), df not empty and with a volume column;
\* cond: what condition_func gives for the rows. It ends in chart.set(candles)
\* and _bar_chart.set(bars)
CandleBarSet(times, cond) ==
    /\ ~hung
    /\ Spend
    /\ HasCandleBar
    /\ times # <<>>
    /\ LET rows == CandleRows(times, TRUE)
           bars == HideRows(rows, cond)
           b == BarChart
       IN \E io1 \in set_interval(Chart, times), io2 \in set_interval(b, times) :
            /\ _data' = [set |-> TRUE, rows |-> rows]
            /\ _interval' = [p \in Panes |-> IF p = Chart THEN io1[1]
                                             ELSE IF p = b THEN io2[1] ELSE _interval[p]]
            /\ offset' = [p \in Panes |-> IF p = Chart THEN io1[2]
                                          ELSE IF p = b THEN io2[2] ELSE offset[p]]
            /\ candle_data' = [candle_data EXCEPT ![Chart] = rows]
            /\ data' = [data EXCEPT ![b] = bars]
            /\ _last_bar' = [p \in Panes |-> IF p = Chart THEN Last(rows)
                                             ELSE IF p = b THEN Last(bars) ELSE _last_bar[p]]
            /\ bar_ticks' = NoTicks(Last(rows).volume)
            /\ Emit(<<Call("setData", Chart, rows, FALSE),
                      Call("volumeSetData", Chart, VolumeRows(rows), FALSE),
                      Call("autoScale", Chart, <<>>, FALSE),
                      Call("clearDrawings", Chart, <<>>, FALSE),
                      Call("setData", b, bars, FALSE)>>)
    /\ last_op' = [Op("CandleBar.set", BarChart) EXCEPT !.flag = cond]
    /\ UNCHANGED <<script_func, has_return_q, hung, bulk_used, pc, id_count, kind, name,
                   markers, _lines, new_bar, ToolTip>>

\* the stored rows after an update that does not raise
UpdatedRows(s, series, rows) ==
    IF IsNewBar(s, series) THEN Append(WriteLast(rows, _last_bar[s]), series) ELSE rows

\* CandleBar.update(series), series with a volume: the row is appended to
\* _data, then chart.update(candle_data) and _bar_chart.update(bar_data)
CandleBarUpdate(series, cond) ==
    /\ ~hung
    /\ Spend
    /\ HasCandleBar
    /\ LET b == BarChart
           o == [Op("CandleBar.update", b) EXCEPT !.time = series.time, !.bar = series,
                                                  !.flag = cond]
           f1 == series_datetime_format(Chart, series)
           f2 == series_datetime_format(b, series)
           r1 == UpdateRaises(Chart, f1, candle_data[Chart])
           r2 == UpdateRaises(b, f2, data[b])
           n1 == IF IsNewBar(Chart, f1) THEN 1 ELSE 0
           n2 == IF IsNewBar(b, f2) THEN 1 ELSE 0
           chart_scripts == <<Call("update", Chart, <<f1>>, FALSE),
                              Call("volumeUpdate", Chart, <<VolumeRow(f1)>>, FALSE)>>
       IN IF ~_data.set
          THEN \* no attribute _data
               /\ last_op' = [o EXCEPT !.raised = "AttributeError"]
               /\ UNCHANGED <<loaded, scripts, final_scripts, bulk_enabled, bulk_scripts,
                              calls, submitted, _data, candle_data, data, _last_bar,
                              new_bar, bar_ticks>>
          ELSE /\ _data' = [_data EXCEPT !.rows = Append(@, series)]
               /\ IF r1 # ""
                  THEN /\ last_op' = [o EXCEPT !.raised = r1]
                       /\ UNCHANGED <<loaded, scripts, final_scripts, bulk_enabled,
                                      bulk_scripts, calls, submitted, candle_data, data,
                                      _last_bar, new_bar, bar_ticks>>
                  ELSE /\ candle_data' = [candle_data EXCEPT
                                             ![Chart] = UpdatedRows(Chart, f1, @)]
                       /\ bar_ticks' = NoTicks(f1.volume)
                       /\ IF r2 # ""
                          THEN /\ last_op' = [o EXCEPT !.raised = r2]
                               /\ _last_bar' = [_last_bar EXCEPT ![Chart] = f1]
                               /\ new_bar' = new_bar + n1
                               /\ Emit(chart_scripts)
                               /\ UNCHANGED data
                          ELSE /\ last_op' = o
                               /\ data' = [data EXCEPT ![b] = UpdatedRows(b, f2, @)]
                               /\ _last_bar' = [p \in Panes |->
                                                   IF p = Chart THEN f1
                                                   ELSE IF p = b THEN f2 ELSE _last_bar[p]]
                               /\ new_bar' = new_bar + n1 + n2
                               /\ Emit(chart_scripts \o <<Call("update", b, <<f2>>, FALSE)>>)
    /\ UNCHANGED <<script_func, has_return_q, hung, bulk_used, pc, id_count, kind, name,
                   _interval, offset, markers, _lines, ToolTip>>

MaxCandleBarCalls == 4

\* a chart, on which a CandleBar is constructed, set and updated
InitCandleBars ==
    /\ Constructed(<<>>, "")
    /\ fuel = MaxCandleBarCalls

NextCandleBars ==
    \/ OnJsLoad
    \/ CreateCandleBar("a_Bar")
    \/ \E times \in Frames, cond \in BOOLEAN : CandleBarSet(times, cond)
    \/ \E series \in {bar \in Bars : bar.volume # NoVol}, cond \in BOOLEAN :
          CandleBarUpdate(series, cond)

SpecCandleBars == InitCandleBars /\ [][NextCandleBars]_vars

\* --------------------------------------------------------------- profiles
\* AbstractChart.create_volume_profile: VolumeProfile.__init__ stores the
\* chart and the side on the profile and sends one script
CreateVolumeProfile(side, fibonacci_profile) ==
    /\ ~hung
    /\ Spend
    /\ Panes # {}
    /\ Emit(<<Call("createVolumeProfile", Chart, <<side # "left", fibonacci_profile>>,
                   FALSE)>>)
    /\ last_op' = [Op("create_volume_profile", Chart) EXCEPT !.flag = fibonacci_profile]
    /\ UNCHANGED <<script_func, has_return_q, hung, bulk_used, pc, id_count, seriesvars>>

\* AbstractChart.create_delta_profile: DeltaProfile.create_delta_profile_js
\* formats its script with the name border_color, which is bound nowhere, so
\* the f-string raises NameError before run_script is called
CreateDeltaProfile(side) ==
    /\ ~hung
    /\ Spend
    /\ Panes # {}
    /\ last_op' = [Op("create_delta_profile", Chart) EXCEPT !.raised = "NameError"]
    /\ UNCHANGED <<winvars, submitted, id_count, seriesvars>>

MaxProfileCalls == 4

\* a chart, on which profiles are created
InitProfiles ==
    /\ Constructed(<<>>, "")
    /\ fuel = MaxProfileCalls

NextProfiles ==
    \/ OnJsLoad
    \/ \E side \in {"left", "right"}, fib \in BOOLEAN : CreateVolumeProfile(side, fib)
    \/ \E side \in {"left", "right"} : CreateDeltaProfile(side)

SpecProfiles == InitProfiles /\ [][NextProfiles]_vars

\* ---------------------------------------------------------------- threads
\* on_js_load run by one thread while others call run_script: its statements
\* in three steps, between which another thread can run

\* on_js_load, lines 46-50: return if loaded, else set loaded
LoadBegin ==
    /\ ~hung
    /\ Spend
    /\ pc = "idle"
    /\ IF loaded
       THEN UNCHANGED <<loaded, pc>>
       ELSE /\ loaded' = TRUE
            /\ pc' = IF has_return_q THEN "probe" ELSE "replay"
    /\ last_op' = NoOp("on_js_load")
    /\ UNCHANGED <<script_func, scripts, final_scripts, bulk_enabled, bulk_scripts,
                   has_return_q, hung, bulk_used, calls, submitted, id_count, seriesvars>>

\* on_js_load, lines 51-52: one round of the readyState loop; complete: what
\* the page answers
LoadProbe(complete) ==
    /\ ~hung
    /\ Spend
    /\ pc = "probe"
    /\ IF script_func = "None"
       THEN /\ pc' = "idle"
            /\ last_op' = [NoOp("on_js_load") EXCEPT !.raised = "AttributeError"]
            /\ UNCHANGED <<loaded, scripts, final_scripts, bulk_enabled, bulk_scripts,
                           calls, submitted>>
       ELSE /\ Emit(<<Call("readyState", 0, <<>>, FALSE)>>)
            /\ pc' = IF complete THEN "replay" ELSE "probe"
            /\ last_op' = [NoOp("run_script_and_get") EXCEPT !.flag = complete]
    /\ UNCHANGED <<script_func, has_return_q, hung, bulk_used, id_count, seriesvars>>

\* on_js_load, lines 54-58: the replay
LoadReplay ==
    /\ ~hung
    /\ Spend
    /\ pc = "replay"
    /\ SetWin(Replay(Win))
    /\ pc' = "idle"
    /\ last_op' = NoOp("on_js_load")
    /\ UNCHANGED <<script_func, has_return_q, hung, bulk_used, submitted, id_count,
                   seriesvars>>

MaxThreadCalls == 5

\* a window with script_func set, a thread in on_js_load, others in run_script
InitThreads ==
    /\ \E js \in BOOLEAN : InitWindow("set", js)
    /\ has_return_q \in BOOLEAN
    /\ id_count = 0
    /\ NoPanes
    /\ fuel = MaxThreadCalls
    /\ last_op = NoOp("init")

NextThreads ==
    \/ \E run_last \in BOOLEAN : RunScript(run_last)
    \/ LoadBegin
    \/ \E complete \in BOOLEAN : LoadProbe(complete)
    \/ LoadReplay

SpecThreads == InitThreads /\ [][NextThreads]_vars

\* ================================================================ claims
\* the accepted run_script calls made by the caller (not the readyState probes)
UserCalls == {i \in 1..Len(submitted) : submitted[i].script.op # "readyState"}

Count(seq, n) == Cardinality({i \in 1..Len(seq) : seq[i].n = n})
IsDelivered(n) == \E i \in 1..Len(Delivered) : Delivered[i].n = n
Pos(n) == CHOOSE i \in 1..Len(Delivered) : Delivered[i].n = n

\* call i was evaluated by the page before call j
EvaluatedBefore(i, j) == IsDelivered(j) => (IsDelivered(i) /\ Pos(i) < Pos(j))

\* call i was queued with run_last before the load, call j without
Postponed(i, j) ==
    /\ submitted[i].pre /\ submitted[i].run_last
    /\ submitted[j].pre /\ ~submitted[j].run_last

\* C1 as stated: with bulk mode never enabled, any two scripts are evaluated
\* by the page in the order in which they were passed to run_script.
C1_Original ==
    ~bulk_used =>
        \A i, j \in UserCalls : i < j => EvaluatedBefore(i, j)

\* C1, amended: scripts are evaluated in the order passed to run_script,
\* except that a script queued with run_last=True before on_js_load is
\* evaluated after every script queued without run_last before on_js_load.
C1_Order ==
    \A i, j \in UserCalls :
        i < j => IF Postponed(i, j) THEN EvaluatedBefore(j, i)
                                    ELSE EvaluatedBefore(i, j)

\* a run_last script and a later plain script, both queued before the load,
\* and a script passed after the load: all three evaluated
C1_Witness ==
    /\ ~bulk_used
    /\ \E i, j, k \in UserCalls :
          /\ i < j /\ j < k
          /\ Postponed(i, j)
          /\ ~submitted[k].pre
          /\ IsDelivered(i) /\ IsDelivered(j) /\ IsDelivered(k)

\* C2: before the load run_script only queues (nothing reaches script_func and
\* every accepted script is pending exactly once); no script is ever delivered
\* twice; once on_js_load has run, every accepted script has been delivered
\* exactly once (or, in bulk mode, waits in the bulk buffer).
C2_ExactlyOnce ==
    /\ ~loaded =>
          /\ Delivered = <<>>
          /\ \A i \in 1..Len(submitted) : Count(scripts \o final_scripts, i) = 1
    /\ \A i \in 1..Len(submitted) : Count(Delivered, i) <= 1
    /\ (loaded /\ ~hung) =>
          \A i \in 1..Len(submitted) :
              Count(Delivered, i) + Count(bulk_scripts, i) = 1

\* scripts queued both ways before the load and one passed after it, bulk mode
\* never used: all evaluated
C2_Witness ==
    /\ loaded /\ ~bulk_used
    /\ \E i, j, k \in UserCalls :
          /\ submitted[i].pre /\ submitted[i].run_last
          /\ submitted[j].pre /\ ~submitted[j].run_last
          /\ ~submitted[k].pre
          /\ IsDelivered(i) /\ IsDelivered(j) /\ IsDelivered(k)
    /\ last_op.op = "on_js_load"
CreateOps == {"createLineSeries", "createHistogramSeries", "createAreaSeries",
              "createBarSeries", "createCustomCandleSeries",
              "createHigherTFCandleSeries"}
Sent(ops, s) ==
    \E i \in 1..Len(submitted) : submitted[i].script.op \in ops /\ submitted[i].script.id = s

\* C4 as stated: lines() holds exactly the series whose creation script was
\* sent and whose delete script was not.
C4_Original ==
    Range(lines) = {s \in Panes : Sent(CreateOps, s) /\ ~Sent({"removeSeries"}, s)}

\* the call just made was op on the series s
Did(op, s) == fuel' < fuel /\ last_op'.op = op /\ last_op'.obj = s

\* the scripts of the kinds ops sent for the series s, among sub, in order
ScriptsIn(sub, ops, s) ==
    SelectSeq(sub, LAMBDA e : e.script.op \in ops /\ e.script.id = s)

\* C3 as stated: for every series the marker list of the latest setMarkers
\* script equals the values of series.markers in insertion order, and markers
\* is empty while no setMarkers script was sent, raising calls included.
C3_Original ==
    \A s \in Panes :
        LET sent == ScriptsIn(submitted, {"setMarkers"}, s)
        IN IF sent = <<>> THEN markers[s] = <<>>
           ELSE Last(sent).script.data = Values(markers[s])

\* the rows the series s stores, given candle_data and data
StoredRows(s, cd, d) == IF kind[s] = "Chart" THEN cd[s] ELSE d[s]

\* the latest set of s passed a non-empty frame
LatestSetNonEmpty(s) ==
    LET sets == ScriptsIn(submitted, {"setData"}, s)
    IN sets # <<>> /\ Last(sets).script.data # <<>>

\* one update after a non-empty set: the formatted bar becomes _last_bar; at
\* the last bar's time the rows stay, at another time the old last bar is
\* written into the last row and the bar is appended
C5_Step ==
    \A s \in Panes :
        (Did("update", s) /\ kind[s] \in {"Chart", "Bar"} /\ LatestSetNonEmpty(s)) =>
            LET rows == StoredRows(s, candle_data, data)
                rows2 == StoredRows(s, candle_data', data')
                bar == series_datetime_format(s, last_op'.bar)
            IN /\ last_op'.raised = ""
               /\ _last_bar'[s] = bar
               /\ IF bar.time = _last_bar[s].time
                  THEN rows2 = rows
                  ELSE /\ Len(rows2) = Len(rows) + 1
                       /\ \A i \in 1..(Len(rows) - 1) : rows2[i] = rows[i]
                       /\ rows2[Len(rows)] = _last_bar[s]
                       /\ Last(rows2) = bar

\* since the latest set, non-empty: the rows are those of the set plus one per
\* update whose time differed from the last bar's, and _last_bar is the bar
\* sent last
C5_Count ==
    \A s \in Panes :
        (kind[s] \in {"Chart", "Bar"} /\ LatestSetNonEmpty(s)) =>
            LET sent == ScriptsIn(submitted, {"setData", "update"}, s)
                k == CHOOSE i \in 1..Len(sent) :
                        /\ sent[i].script.op = "setData"
                        /\ \A j \in (i + 1)..Len(sent) : sent[j].script.op = "update"
                base == sent[k].script.data
                TimeBefore(j) == IF j = k + 1 THEN Last(base).time
                                 ELSE sent[j - 1].script.data[1].time
                differing == {j \in (k + 1)..Len(sent) :
                                 sent[j].script.data[1].time # TimeBefore(j)}
            IN /\ Len(StoredRows(s, candle_data, data)) = Len(base) + Cardinality(differing)
               /\ _last_bar[s] = IF k = Len(sent) THEN Last(base)
                                 ELSE Last(sent).script.data[1]

C6_TooEarly ==
    [][(/\ Did("update_from_tick", Chart)
        /\ HasBar(Chart)
        /\ single_datetime_format(Chart, last_op'.time) < _last_bar[Chart].time)
       => /\ last_op'.raised = "ValueError"
          /\ submitted' = submitted
          /\ calls' = calls /\ scripts' = scripts /\ final_scripts' = final_scripts
          /\ bulk_scripts' = bulk_scripts
          /\ new_bar' = new_bar
          /\ candle_data' = candle_data
          /\ _last_bar' = _last_bar]_vars

\* a tick before the last bar was refused
C6_Witness ==
    /\ last_op.op = "update_from_tick" /\ last_op.raised = "ValueError"
    /\ single_datetime_format(Chart, last_op.time) < _last_bar[Chart].time
    /\ candle_data[Chart] # <<>>

\* low <= open <= high and low <= close <= high
Sane(bar) ==
    /\ bar.low <= bar.open /\ bar.open <= bar.high
    /\ bar.low <= bar.close /\ bar.close <= bar.high

\* an accepted tick: in the last bar open stays, high and low take the price
\* in, close is the price; after the last bar open = high = low = close = price
C7_Step ==
    (Did("update_from_tick", Chart) /\ last_op'.raised = "") =>
        LET t == single_datetime_format(Chart, last_op'.time)
            price == last_op'.bar.price
            old == _last_bar[Chart]
            new == _last_bar'[Chart]
        IN /\ new.time = t
           /\ new.close = price
           /\ IF t = old.time
              THEN /\ new.open = old.open
                   /\ new.high = IF old.high >= price THEN old.high ELSE price
                   /\ new.low = IF old.low <= price THEN old.low ELSE price
              ELSE new.open = price /\ new.high = price /\ new.low = price

\* C7: a tick in the last bar keeps open, sets high = max(high, price), low =
\* min(low, price), close = price; a later tick starts a bar with open = high =
\* low = close = price; the last bar stays sane, the bars set and passed being so.
C7_Ticks == [][C7_Step]_vars /\ [](HasBar(Chart) => Sane(_last_bar[Chart]))

\* accepted ticks in one bar have moved its high above and its low below its open
C7_Witness ==
    /\ last_op.op = "update_from_tick" /\ last_op.raised = ""
    /\ Len(bar_ticks.ticks) >= 2
    /\ _last_bar[Chart].low < _last_bar[Chart].high

RECURSIVE SumVolumes(_)
SumVolumes(ticks) ==
    IF ticks = <<>> THEN 0 ELSE Head(ticks).volume + SumVolumes(Tail(ticks))

\* every tick accepted for the last bar had a volume, and all but the one that
\* opened the bar came with cumulative_volume=True
Cumulative(h) ==
    \A i \in 1..Len(h.ticks) :
        /\ h.ticks[i].volume # NoVol
        /\ h.ticks[i].opens \/ h.ticks[i].cumulative

\* an accepted tick with a volume: in the last bar the volume grows by it or
\* is replaced by it, by cumulative_volume; a new bar has the tick's volume
C8_Step ==
    (/\ Did("update_from_tick", Chart)
     /\ last_op'.raised = ""
     /\ last_op'.bar.volume # NoVol) =>
        LET t == single_datetime_format(Chart, last_op'.time)
            volume == last_op'.bar.volume
            old == _last_bar[Chart]
            new == _last_bar'[Chart]
        IN IF t = old.time
           THEN new.volume = IF last_op'.flag THEN old.volume + volume ELSE volume
           ELSE new.volume = volume

\* C8 as stated: the volume rules of a tick, and with cumulative_volume=True
\* the last bar's volume is the sum of the volumes of the ticks received for it.
C8_Original ==
    /\ [][C8_Step]_vars
    /\ []((HasBar(Chart) /\ bar_ticks.ticks # <<>> /\ Cumulative(bar_ticks))
          => _last_bar[Chart].volume = SumVolumes(bar_ticks.ticks))

\* C8: the volume rules of a tick; with cumulative_volume=True the last bar's
\* volume is the sum of the volumes of its ticks if a tick opened the bar, and
\* the volume set or update gave the bar plus that sum otherwise.
C8_Volume ==
    /\ [][C8_Step]_vars
    /\ []((/\ HasBar(Chart)
           /\ bar_ticks.ticks # <<>>
           /\ Cumulative(bar_ticks)
           /\ bar_ticks.base # NoVol)
          => _last_bar[Chart].volume = bar_ticks.base + SumVolumes(bar_ticks.ticks))

\* a tick opened the bar and a cumulative tick followed in it
C8_Witness ==
    /\ last_op.op = "update_from_tick" /\ last_op.raised = "" /\ last_op.flag
    /\ Len(bar_ticks.ticks) >= 2
    /\ bar_ticks.ticks[1].opens
    /\ Cumulative(bar_ticks)
    /\ _last_bar[Chart].volume = SumVolumes(bar_ticks.ticks)

\* C9 as stated: marker() without a time takes the time of the last bar of
\* the data most recently sent for the series by set or update; if that is
\* none or empty it raises TypeError, adds no marker, consumes no id and sends
\* no script.
C9_Original ==
    [][\A s \in Panes :
          (Did("marker", s) /\ last_op'.time = NoTime) =>
              LET sent == ScriptsIn(submitted, {"setData", "update"}, s)
              IN IF sent = <<>> \/ Last(sent).script.data = <<>>
                 THEN /\ last_op'.raised = "TypeError"
                      /\ markers' = markers
                      /\ id_count' = id_count
                      /\ submitted' = submitted
                 ELSE /\ last_op'.raised = ""
                      /\ Last(markers'[s]).m.time = Last(Last(sent).script.data).time]_vars

\* remove_marker: a present id goes and nothing else changes, setMarkers is
\* sent again; an absent id raises KeyError and nothing changes
C10_Remove ==
    \A s \in Panes :
        Did("remove_marker", s) =>
            LET ms == markers[s]
                marker_id == last_op'.marker_id
            IN IF marker_id \in Keys(ms)
               THEN /\ last_op'.raised = ""
                    /\ \E k \in 1..Len(ms) :
                          /\ ms[k].id = marker_id
                          /\ markers'[s] = SubSeq(ms, 1, k - 1) \o SubSeq(ms, k + 1, Len(ms))
                    /\ \A p \in Panes \ {s} : markers'[p] = markers[p]
                    /\ Len(submitted') = Len(submitted) + 1
                    /\ Last(submitted').script.op = "setMarkers"
                    /\ Last(submitted').script.id = s
                    /\ Last(submitted').script.data = Values(markers'[s])
               ELSE /\ last_op'.raised = "KeyError"
                    /\ markers' = markers
                    /\ submitted' = submitted
                    /\ calls' = calls /\ scripts' = scripts

\* the marker stored under the id marker_id
Stores(ms, marker_id, t) ==
    \E k \in 1..Len(ms) : ms[k].id = marker_id /\ ms[k].m.time = t

\* marker and marker_list return keys of markers, marker_list one per marker
\* passed, in their order
C10_Ids ==
    \A s \in Panes :
        /\ (Did("marker", s) /\ last_op'.raised = "") =>
              /\ Len(last_op'.ret) = 1
              /\ last_op'.ret[1] \in Keys(markers'[s])
              /\ last_op'.ret[1] \notin Keys(markers[s])
        /\ (Did("marker_list", s) /\ last_op'.raised = "") =>
              /\ Len(last_op'.ret) = Len(last_op'.list)
              /\ \A i \in 1..Len(last_op'.ret) :
                    /\ last_op'.ret[i] \notin Keys(markers[s])
                    /\ Stores(markers'[s], last_op'.ret[i],
                              single_datetime_format(s, last_op'.list[i].time))
              /\ \A i, j \in 1..Len(last_op'.ret) : i # j => last_op'.ret[i] # last_op'.ret[j]

\* C10: remove_marker removes exactly the entry of a present id, keeps the
\* others in order and re-sends setMarkers; for an absent id it raises KeyError,
\* changes nothing and sends nothing; marker and marker_list return keys of
\* markers, marker_list one id per input marker in input order.
C10_Markers == [][C10_Remove /\ C10_Ids]_vars

\* the second of three markers was removed, the others stayed in order
C10_Witness ==
    /\ last_op.op = "remove_marker" /\ last_op.raised = ""
    /\ Len(markers[last_op.obj]) = 2
    /\ markers[last_op.obj][1].id < last_op.marker_id
    /\ last_op.marker_id < markers[last_op.obj][2].id


\* the scripts the call just made has sent
NewScripts == SubSeq(submitted', Len(submitted) + 1, Len(submitted'))

\* C11 as stated: every Candlestick.set(df, keep_drawings) sends exactly one
\* toolbox script, after the data script: repositionOnTime if keep_drawings,
\* clearDrawings otherwise; for every df, empty or without volume included.
C11_Original ==
    [][Did("set", Chart) =>
          LET new == NewScripts
              toolbox == {i \in 1..Len(new) :
                             new[i].script.op \in {"repositionOnTime", "clearDrawings"}}
          IN /\ Cardinality(toolbox) = 1
             /\ \A i \in toolbox :
                   /\ new[i].script.op = IF last_op'.flag THEN "repositionOnTime"
                                         ELSE "clearDrawings"
                   /\ \E j \in 1..(i - 1) :
                         new[j].script.op = "setData" /\ new[j].script.id = Chart]_vars


\* the scripts of the kinds ops that name the series s, among sub, in order
Naming(sub, ops, s) ==
    SelectSeq(sub, LAMBDA e : e.script.op \in ops /\ e.script.data = <<name[s]>>)

\* the latest tooltip script naming s attached one
Attached(s) ==
    LET sent == Naming(submitted, {"attachTooltip", "detachTooltip"}, s)
    IN sent # <<>> /\ Last(sent).script.op = "attachTooltip"

\* C12 as stated: after s.tooltip() an attachTooltip script naming s has been
\* sent, and s.detach_tooltip() sends detachTooltip only if a tooltip is
\* attached to s, for every series and every interleaving.
C12_Original ==
    [][\A s \in Panes :
          /\ Did("tooltip", s) => Naming(submitted', {"attachTooltip"}, s) # <<>>
          /\ (Did("detach_tooltip", s) /\ submitted' # submitted) => Attached(s)]_vars


\* C13 as stated: CandleBar.update at the time of the last stored bar leaves
\* the number of rows of _data unchanged; only a bar with a new time adds a row.
C13_Original ==
    [][(/\ fuel' < fuel
        /\ last_op'.op = "CandleBar.update"
        /\ _data.set /\ _data.rows # <<>>)
       => IF last_op'.time = Last(_data.rows).time
          THEN Len(_data'.rows) = Len(_data.rows)
          ELSE Len(_data'.rows) <= Len(_data.rows) + 1]_vars


\* the call just made returned, sent the one script op and changed nothing
\* else of the chart
OnlySends(op) ==
    /\ last_op'.raised = ""
    /\ Len(NewScripts) = 1
    /\ NewScripts[1].script.op = op /\ NewScripts[1].script.id = Chart
    /\ UNCHANGED <<id_count, seriesvars>>

\* C14 as stated: create_volume_profile and create_delta_profile never raise,
\* send exactly one script (createVolumeProfile / createDeltaProfile) and
\* change no other state of the chart.
C14_Original ==
    [][/\ Did("create_volume_profile", Chart) => OnlySends("createVolumeProfile")
       /\ Did("create_delta_profile", Chart) => OnlySends("createDeltaProfile")]_vars


\* C15 as stated: a script passed to run_script while on_js_load is executing
\* (by another thread, or by the readyState probe) is not delivered to
\* script_func before the scripts that were buffered before the load.
C15_Original ==
    \A i, j \in 1..Len(submitted) :
        (submitted[i].pre /\ ~submitted[j].pre) => EvaluatedBefore(i, j)


\* the set call just made on s sent setData([])
SetEmpty(s) ==
    /\ Did("set", s)
    /\ \E i \in 1..Len(NewScripts) :
          /\ NewScripts[i].script.op = "setData"
          /\ NewScripts[i].script.id = s
          /\ NewScripts[i].script.data = <<>>

\* C16 as stated: for every series type set(None) or set(empty) sends
\* setData([]) and leaves the rows the series stores empty, as sent.
C16_Original ==
    [][\A s \in Panes :
          SetEmpty(s) => StoredRows(s, candle_data', data') = <<>>]_vars

====
